---------------------------- MODULE Spec2Model ----------------------------
(***************************************************************************)
(* Model of code-assist-backend.py: the FastAPI handler extract_route      *)
(* (POST /api/extract), its retry/backoff loop around the OCR call and the *)
(* chat-completion call, and the asyncio event loop that runs the handler. *)
(*                                                                         *)
(* Python strings are sequences of one-character strings.  Python values   *)
(* are records [t |-> type name, v |-> content].  The JSON decoder handles *)
(* the subset of JSON without escapes, signs, fractions and exponents.     *)
(***************************************************************************)
EXTENDS Integers, Sequences, FiniteSets, TLC

\* ---------------------------------------------------------------- bounds
\* how far the long OCR text / long raw content exceeds the 500-char cut
LongExtra == 1

\* ------------------------------------------------------ program constants
max_retries == 5

initial_backoff == 2

TruncLen == 500

\* ------------------------------------------------------------ Python values
PyNone == [t |-> "none", v |-> 0]

PyStr(s) == [t |-> "str", v |-> s]

PyInt(n) == [t |-> "int", v |-> n]

PyBool(b) == [t |-> "bool", v |-> b]

PyList(items) == [t |-> "list", v |-> items]

PyDict(map) == [t |-> "dict", v |-> map]

EmptyMap == [k \in {} |-> PyNone]

IsStr(x) == x.t = "str"

\* dict.get(key, default)
DictGet(d, key, default) == IF key \in DOMAIN d.v THEN d.v[key] ELSE default

\* variant: only None counts as missing
Truthy_NotNone(x) == x.t # "none"

\* Python truthiness, as used by `if not imageDataList`
Truthy(x) ==
    CASE x.t = "none" -> FALSE
      [] x.t = "bool" -> x.v
      [] x.t = "int"  -> x.v # 0
      [] x.t = "str"  -> Len(x.v) > 0
      [] x.t = "list" -> Len(x.v) > 0
      [] x.t = "dict" -> DOMAIN x.v # {}

\* variant: the slice is not taken
Slice_Whole(s, n) == s

\* the slice s[:n]
Slice(s, n) == SubSeq(s, 1, IF Len(s) < n THEN Len(s) ELSE n)

\* ------------------------------------------------------------ string literals
KeyProblemInfo ==
    <<"p", "r", "o", "b", "l", "e", "m", "I", "n", "f", "o">>

KeyLanguage ==
    <<"l", "a", "n", "g", "u", "a", "g", "e">>

KeyImageDataList ==
    <<"i", "m", "a", "g", "e", "D", "a", "t", "a", "L", "i", "s", "t">>

StrPython ==
    <<"p", "y", "t", "h", "o", "n">>

MsgRateLimits ==
    <<"U", "n", "a", "b", "l", "e", " ", "t", "o", " ", "p", "r", "o", "c", "e", "s", "s", " ", "i", "m", "a", "g", "e", " ", "d", "u", "e", " ", "t", "o", " ", "A", "P", "I", " ", "r", "a", "t", "e", " ", "l", "i", "m", "i", "t", "s", ".", " ", "P", "l", "e", "a", "s", "e", " ", "t", "r", "y", " ", "a", "g", "a", "i", "n", " ", "l", "a", "t", "e", "r", ".">>

MsgRawOcrPrefix ==
    <<"A", "P", "I", " ", "r", "a", "t", "e", " ", "l", "i", "m", "i", "t", "e", "d", ".", " ", "R", "a", "w", " ", "O", "C", "R", " ", "t", "e", "x", "t", ":", " ">>

MsgParsePrefix ==
    <<"E", "r", "r", "o", "r", " ", "p", "a", "r", "s", "i", "n", "g", " ", "r", "e", "s", "p", "o", "n", "s", "e", ".", " ", "R", "a", "w", " ", "c", "o", "n", "t", "e", "n", "t", ":", " ">>

Ellipsis ==
    <<".", ".", ".">>

ContentGood ==
    <<"{", "\"", "p", "r", "o", "b", "l", "e", "m", "I", "n", "f", "o", "\"", ":", "\"", "s", "u", "m", "\"", ",", "\"", "l", "a", "n", "g", "u", "a", "g", "e", "\"", ":", "\"", "g", "o", "\"", "}">>

ContentNested ==
    <<"{", "\"", "p", "r", "o", "b", "l", "e", "m", "I", "n", "f", "o", "\"", ":", "{", "\"", "t", "i", "t", "l", "e", "\"", ":", "\"", "s", "u", "m", "\"", "}", ",", "\"", "l", "a", "n", "g", "u", "a", "g", "e", "\"", ":", "\"", "g", "o", "\"", "}">>

ContentList ==
    <<"[", "1", ",", "\"", "a", "\"", "]">>

ContentCut ==
    <<"{", "\"", "p", "r", "o", "b", "l", "e", "m", "I", "n", "f", "o", "\"", ":", "\"", "s", "u", "m", "\"", ",", "\"", "l", "a", "n", "g", "u", "a", "g", "e", "\"", ":">>

\* ------------------------------------------------------------ json.loads
Whitespace == {" ", "\n", "\t"}

Digits == {"0", "1", "2", "3", "4", "5", "6", "7", "8", "9"}

DigitVal(c) ==
    CASE c = "0" -> 0 [] c = "1" -> 1 [] c = "2" -> 2 [] c = "3" -> 3
      [] c = "4" -> 4 [] c = "5" -> 5 [] c = "6" -> 6 [] c = "7" -> 7
      [] c = "8" -> 8 [] c = "9" -> 9

ParseFail == [ok |-> FALSE, val |-> PyNone, pos |-> 0]

ParseOk(val, pos) == [ok |-> TRUE, val |-> val, pos |-> pos]

RECURSIVE SkipWs(_, _)
SkipWs(s, i) ==
    IF i <= Len(s) /\ s[i] \in Whitespace THEN SkipWs(s, i + 1) ELSE i

\* s[i] is the opening quote; the string ends at the next quote
ParseString(s, i) ==
    LET closing == {j \in (i + 1)..Len(s) : s[j] = "\""}
    IN  IF closing = {} THEN ParseFail
        ELSE LET j == CHOOSE j \in closing : \A k \in closing : j <= k
             IN  ParseOk(PyStr(SubSeq(s, i + 1, j - 1)), j + 1)

RECURSIVE DigitRun(_, _, _)
DigitRun(s, i, acc) ==
    IF i <= Len(s) /\ s[i] \in Digits
    THEN DigitRun(s, i + 1, 10 * acc + DigitVal(s[i]))
    ELSE ParseOk(PyInt(acc), i)

\* a leading zero is a number of its own
ParseNumber(s, i) ==
    IF s[i] = "0" THEN ParseOk(PyInt(0), i + 1) ELSE DigitRun(s, i, 0)

ParseLiteral(s, i, word, val) ==
    IF i + Len(word) - 1 <= Len(s) /\ SubSeq(s, i, i + Len(word) - 1) = word
    THEN ParseOk(val, i + Len(word))
    ELSE ParseFail

RECURSIVE ParseValue(_, _)
RECURSIVE ParseElements(_, _, _)
RECURSIVE ParseMembers(_, _, _)

ParseElements(s, i, acc) ==
    LET e == ParseValue(s, SkipWs(s, i))
        k == SkipWs(s, e.pos)
    IN  IF ~e.ok \/ k > Len(s) THEN ParseFail
        ELSE IF s[k] = "," THEN ParseElements(s, k + 1, Append(acc, e.val))
        ELSE IF s[k] = "]" THEN ParseOk(PyList(Append(acc, e.val)), k + 1)
        ELSE ParseFail

ParseMembers(s, i, acc) ==
    LET p == SkipWs(s, i)
        key == IF p <= Len(s) /\ s[p] = "\"" THEN ParseString(s, p) ELSE ParseFail
        c == SkipWs(s, key.pos)
        e == ParseValue(s, SkipWs(s, c + 1))
        k == SkipWs(s, e.pos)
        map == (key.val.v :> e.val) @@ acc
    IN  IF ~key.ok \/ c > Len(s) THEN ParseFail
        ELSE IF s[c] # ":" THEN ParseFail
        ELSE IF ~e.ok \/ k > Len(s) THEN ParseFail
        ELSE IF s[k] = "," THEN ParseMembers(s, k + 1, map)
        ELSE IF s[k] = "}" THEN ParseOk(PyDict(map), k + 1)
        ELSE ParseFail

ParseValue(s, i) ==
    IF i > Len(s) THEN ParseFail
    ELSE IF s[i] = "\"" THEN ParseString(s, i)
    ELSE IF s[i] \in Digits THEN ParseNumber(s, i)
    ELSE IF s[i] = "n" THEN ParseLiteral(s, i, <<"n", "u", "l", "l">>, PyNone)
    ELSE IF s[i] = "t" THEN ParseLiteral(s, i, <<"t", "r", "u", "e">>, PyBool(TRUE))
    ELSE IF s[i] = "f" THEN ParseLiteral(s, i, <<"f", "a", "l", "s", "e">>, PyBool(FALSE))
    ELSE IF s[i] = "["
         THEN LET j == SkipWs(s, i + 1)
              IN  IF j <= Len(s) /\ s[j] = "]" THEN ParseOk(PyList(<<>>), j + 1)
                  ELSE ParseElements(s, i + 1, <<>>)
    ELSE IF s[i] = "{"
         THEN LET j == SkipWs(s, i + 1)
              IN  IF j <= Len(s) /\ s[j] = "}" THEN ParseOk(PyDict(EmptyMap), j + 1)
                  ELSE ParseMembers(s, i + 1, EmptyMap)
    ELSE ParseFail

\* json.loads(s): ok = FALSE stands for json.JSONDecodeError
JsonLoads(s) ==
    LET r == ParseValue(s, SkipWs(s, 1))
    IN  IF r.ok /\ SkipWs(s, r.pos) = Len(s) + 1
        THEN [ok |-> TRUE, val |-> r.val]
        ELSE [ok |-> FALSE, val |-> PyNone]

\* ------------------------------------------------------------ inputs
\* alternating text of n characters
TextOfLen(n) == [i \in 1..n |-> IF i % 2 = 1 THEN "a" ELSE "b"]

Image == <<"i", "m", "g">>

\* request bodies of POST /api/extract
Bodies ==
    { PyDict(EmptyMap),
      PyDict(KeyImageDataList :> PyList(<<>>)),
      PyDict(KeyImageDataList :> PyList(<<PyStr(Image)>>)),
      PyDict((KeyImageDataList :> PyList(<<PyStr(Image), PyStr(Image)>>))
             @@ (KeyLanguage :> PyStr(<<"g", "o">>))) }

\* markdown of the first OCR page
OcrTexts == {TextOfLen(3), TextOfLen(TruncLen + LongExtra)}

\* message content of the first chat choice
ChatContents ==
    {ContentGood, ContentNested, ContentList, ContentCut, TextOfLen(TruncLen + LongExtra)}

\* exceptions an external call raises: class and the words of str(err)
RateLimitPhrase == <<"Requests", "rate", "limit", "exceeded">>

Exceptions ==
    { [cls |-> "SDKError", msg |-> <<"Status", "429">> \o RateLimitPhrase],
      [cls |-> "SDKError", msg |-> <<"Status", "401", "Unauthorized">>],
      [cls |-> "RemoteProtocolError", msg |-> <<"Server", "disconnected">>],
      [cls |-> "ReadError", msg |-> <<>>],
      [cls |-> "ConnectError", msg |-> <<"All", "connection", "attempts", "failed">>],
      [cls |-> "ReadTimeout", msg |-> <<"Requests">> \o RateLimitPhrase],
      [cls |-> "IndexError", msg |-> <<"list", "index", "out", "of", "range">>] }

\* `phrase in str(err)`
Contains(msg, phrase) ==
    \E i \in 0..(Len(msg) - Len(phrase)) : SubSeq(msg, i + 1, i + Len(phrase)) = phrase

IsSDKError(e) == e.cls = "SDKError"

IsRateLimit(e) == Contains(e.msg, RateLimitPhrase)

\* except (httpx.RemoteProtocolError, httpx.ReadError, httpx.ConnectError)
NetworkErrors == {"RemoteProtocolError", "ReadError", "ConnectError"}

\* variant: every httpx exception is taken for a network error
IsNetworkError_AnyHttpx(e) == e.cls \in NetworkErrors \cup {"ReadTimeout"}

IsNetworkError(e) == e.cls \in NetworkErrors

\* the error taxonomy: what kind of failure the external call really had
ErrorClass(e) ==
    IF e.cls = "SDKError" /\ Contains(e.msg, RateLimitPhrase) THEN "RateLimited"
    ELSE IF e.cls \in {"RemoteProtocolError", "ReadError", "ConnectError"}
         THEN "TransientNetwork"
    ELSE "Other"

\* variant: the test is off by one
Exhausted_Late(n) == n > max_retries

\* `if attempt == max_retries`
Exhausted(n) == n = max_retries

\* variant: the backoff grows by a fixed step
NextBackoff_Linear(b) == b + initial_backoff

\* variant: the backoff stops growing at 8 seconds
NextBackoff_Capped(b) == IF b * 2 > 8 THEN 8 ELSE b * 2

\* `backoff_time *= 2`
NextBackoff(b) == b * 2

\* ------------------------------------------------------------ state
VARIABLES
    pc,            \* position of the request task inside extract_route
    body,          \* the request's JSON body
    language,      \* local `language`
    attempt,       \* local `attempt`
    backoff_time,  \* local `backoff_time`
    image_ocr_md,  \* local `image_ocr_md`: [bound, val]; bound = in locals()
    chat_response, \* local `chat_response`, its choices[0].message.content
    result,        \* what the handler returned or raised
    log,           \* external calls made and sleeps started, in order
    after_degraded, \* the invocation before this one ended degraded
    gpc,           \* position of the request task inside generate_route
    gbody,         \* the JSON body of the generate request
    gresult,       \* what generate_route returned or raised
    groq_response, \* local `groq_response`, its content
    glog,          \* calls of the text-generation model, in order
    loop           \* the task the event-loop thread is executing, or "none"

extractVars ==
    <<pc, body, language, attempt, backoff_time, image_ocr_md, chat_response, result, log,
      after_degraded>>

generateVars == <<gpc, gbody, gresult, groq_response, glog>>

vars == <<extractVars, generateVars, loop>>

Unbound == [bound |-> FALSE, val |-> <<>>]

Bound(s) == [bound |-> TRUE, val |-> s]

Pending == [kind |-> "pending", status |-> 0, value |-> PyNone, detail |-> ""]

Returned(value) == [kind |-> "json", status |-> 200, value |-> value, detail |-> ""]

HTTPException(status, detail) ==
    [kind |-> "error", status |-> status, value |-> PyNone, detail |-> detail]

CallEvent(stage, out) == [stage |-> stage, out |-> out, dur |-> 0]

SleepEvent(dur) == [stage |-> "sleep", out |-> "started", dur |-> dur]

\* ExtractionResult-shaped dict built by the handler
Payload(info, lang) == PyDict((KeyProblemInfo :> PyStr(info)) @@ (KeyLanguage :> lang))

Init ==
    /\ pc = "idle"
    /\ body = PyNone
    /\ language = PyNone
    /\ attempt = 0
    /\ backoff_time = 0
    /\ image_ocr_md = Unbound
    /\ chat_response = Unbound
    /\ result = Pending
    /\ log = <<>>
    /\ after_degraded = FALSE
    /\ gpc = "idle"
    /\ gbody = PyNone
    /\ gresult = Pending
    /\ groq_response = Unbound
    /\ glog = <<>>
    /\ loop = "none"

\* ------------------------------------------------------------ handler exits
\* the handler returns `value`: the task ends and the thread is released
Return(value, event) ==
    /\ result' = Returned(value)
    /\ log' = Append(log, event)
    /\ pc' = "done"
    /\ loop' = "none"

\* the handler raises HTTPException(status)
Raise(status, detail, event) ==
    /\ result' = HTTPException(status, detail)
    /\ log' = Append(log, event)
    /\ pc' = "done"
    /\ loop' = "none"

\* time.sleep(backoff_time): the calling thread stays inside the handler
Sleep(event) ==
    /\ log' = Append(Append(log, event), SleepEvent(backoff_time))
    /\ pc' = "sleep"
    /\ UNCHANGED <<result, loop>>

\* ------------------------------------------------------------ request arrival
\* a request reaches the route; the handler suspends in `await request.json()`
ExtractReceive ==
    /\ pc = "idle"
    /\ \E b \in Bodies : body' = b
    /\ pc' = "await_body"
    /\ UNCHANGED <<language, attempt, backoff_time, image_ocr_md, chat_response, result, log, after_degraded>>
    /\ UNCHANGED <<generateVars, loop>>

\* variant: the counters live outside the handler and are not set again
ExtractStart_SharedCounters ==
    /\ pc = "await_body"
    /\ loop = "none"
    /\ LET imageDataList == DictGet(body, KeyImageDataList, PyList(<<>>))
           lang == DictGet(body, KeyLanguage, PyStr(StrPython))
       IN  /\ language' = lang
           /\ IF ~Truthy(imageDataList)
              THEN /\ result' = HTTPException(400, "imageDataList cannot be empty.")
                   /\ pc' = "done"
                   /\ loop' = "none"
                   /\ UNCHANGED <<attempt, backoff_time>>
              ELSE /\ attempt' = attempt
                   /\ backoff_time' = IF backoff_time = 0 THEN initial_backoff ELSE backoff_time
                   /\ IF attempt' < max_retries
                      THEN /\ pc' = "ocr"
                           /\ loop' = "extract"
                           /\ UNCHANGED result
                      ELSE /\ result' = HTTPException(500, "Failed to process image after maximum retries.")
                           /\ pc' = "done"
                           /\ loop' = "none"
    /\ UNCHANGED <<body, image_ocr_md, chat_response, log, after_degraded, generateVars>>

\* the body is in: validation, the locals, the first loop test
ExtractStart ==
    /\ pc = "await_body"
    /\ loop = "none"
    /\ LET imageDataList == DictGet(body, KeyImageDataList, PyList(<<>>))
           lang == DictGet(body, KeyLanguage, PyStr(StrPython))
       IN  /\ language' = lang
           /\ IF ~Truthy(imageDataList)
              THEN /\ result' = HTTPException(400, "imageDataList cannot be empty.")
                   /\ pc' = "done"
                   /\ loop' = "none"
                   /\ UNCHANGED <<attempt, backoff_time>>
              ELSE /\ attempt' = 0
                   /\ backoff_time' = initial_backoff
                   /\ IF attempt' < max_retries
                      THEN /\ pc' = "ocr"
                           /\ loop' = "extract"
                           /\ UNCHANGED result
                      ELSE /\ result' = HTTPException(500, "Failed to process image after maximum retries.")
                           /\ pc' = "done"
                           /\ loop' = "none"
    /\ UNCHANGED <<body, image_ocr_md, chat_response, log, after_degraded, generateVars>>

\* ------------------------------------------------------------ error handlers
\* variant: the OCR branch returns OCR text left by an earlier iteration
OcrRateLimitHandler_UsesStaleText(ev) ==
    LET n == attempt + 1
    IN  /\ attempt' = n
        /\ IF Exhausted(n)
           THEN IF image_ocr_md.bound
                THEN Return(Payload(MsgRawOcrPrefix \o Slice(image_ocr_md.val, TruncLen)
                                      \o Ellipsis, language), ev)
                ELSE Return(Payload(MsgRateLimits, language), ev)
           ELSE Sleep(ev)
        /\ UNCHANGED <<body, language, backoff_time, image_ocr_md, chat_response, after_degraded>>

\* except SDKError as ocr_err, rate-limit branch
OcrRateLimitHandler(ev) ==
    LET n == attempt + 1
    IN  /\ attempt' = n
        /\ IF Exhausted(n)
           THEN Return(Payload(MsgRateLimits, language), ev)
           ELSE Sleep(ev)
        /\ UNCHANGED <<body, language, backoff_time, image_ocr_md, chat_response, after_degraded>>

\* variant: the chat branch is a copy of the OCR branch
ChatRateLimitHandler_Generic(ev) == OcrRateLimitHandler(ev)

\* except SDKError as chat_err, rate-limit branch
ChatRateLimitHandler(ev) ==
    LET n == attempt + 1
    IN  /\ attempt' = n
        /\ IF Exhausted(n)
           THEN IF image_ocr_md.bound
                THEN Return(Payload(MsgRawOcrPrefix \o Slice(image_ocr_md.val, TruncLen)
                                      \o Ellipsis, language), ev)
                ELSE Return(Payload(MsgRateLimits, language), ev)
           ELSE Sleep(ev)
        /\ UNCHANGED <<body, language, backoff_time, image_ocr_md, chat_response, after_degraded>>

\* variant: the sleep comes before the test of the counter
NetworkErrorHandler_SleepsFirst(ev) ==
    /\ attempt' = attempt + 1
    /\ Sleep(ev)
    /\ UNCHANGED <<body, language, backoff_time, image_ocr_md, chat_response, after_degraded>>

\* variant: a network error does not count as an attempt
NetworkErrorHandler_Uncounted(ev) ==
    /\ Sleep(ev)
    /\ UNCHANGED <<body, language, attempt, backoff_time, image_ocr_md, chat_response,
                   after_degraded>>

\* except (httpx.RemoteProtocolError, httpx.ReadError, httpx.ConnectError)
NetworkErrorHandler(ev) ==
    LET n == attempt + 1
    IN  /\ attempt' = n
        /\ IF Exhausted(n)
           THEN Raise(503, "Network error when connecting to API services.", ev)
           ELSE Sleep(ev)
        /\ UNCHANGED <<body, language, backoff_time, image_ocr_md, chat_response, after_degraded>>

\* except Exception
UnexpectedErrorHandler(ev) ==
    /\ Raise(500, "An unexpected error occurred", ev)
    /\ UNCHANGED <<body, language, attempt, backoff_time, image_ocr_md, chat_response, after_degraded>>

\* exception e leaves a stage: the inner except clause, then the outer ones
StageFailure(stage, e) ==
    LET ev == CallEvent(stage, ErrorClass(e))
    IN  IF IsSDKError(e) /\ IsRateLimit(e)
        THEN IF stage = "ocr" THEN OcrRateLimitHandler(ev) ELSE ChatRateLimitHandler(ev)
        ELSE IF IsNetworkError(e) THEN NetworkErrorHandler(ev)
        ELSE UnexpectedErrorHandler(ev)

\* ------------------------------------------------------------ stages
\* client.ocr.process(...) and pages[0].markdown
OcrStage ==
    /\ pc = "ocr"
    /\ loop = "extract"
    /\ \/ \E text \in OcrTexts :
            /\ image_ocr_md' = Bound(text)
            /\ log' = Append(log, CallEvent("ocr", "ok"))
            /\ pc' = "chat"
            /\ UNCHANGED <<body, language, attempt, backoff_time, chat_response, result, loop, after_degraded>>
       \/ \E e \in Exceptions : StageFailure("ocr", e)
    /\ UNCHANGED generateVars

\* variant: the fallback payload is returned for every content
ChatResult_Fallback(content, lang) ==
    Payload(MsgParsePrefix \o Slice(content, TruncLen) \o Ellipsis, lang)

\* what the handler returns for the chat content: json.loads or the fallback
ChatResult(content, lang) ==
    LET parsed == JsonLoads(content)
    IN  IF parsed.ok THEN parsed.val
        ELSE Payload(MsgParsePrefix \o Slice(content, TruncLen) \o Ellipsis, lang)

\* client.chat.complete(...) and the parsing of its content
ChatStage ==
    /\ pc = "chat"
    /\ loop = "extract"
    /\ \/ \E content \in ChatContents :
            /\ chat_response' = Bound(content)
            /\ Return(ChatResult(content, language), CallEvent("chat", "ok"))
            /\ UNCHANGED <<body, language, attempt, backoff_time, image_ocr_md, after_degraded>>
       \/ \E e \in Exceptions : StageFailure("chat", e)
    /\ UNCHANGED generateVars

\* variant: the retry resumes at the chat stage when OCR text is at hand
SleepReturn_ResumeStage ==
    /\ pc = "sleep"
    /\ loop = "extract"
    /\ backoff_time' = NextBackoff(backoff_time)
    /\ pc' = IF image_ocr_md.bound THEN "chat" ELSE "ocr"
    /\ UNCHANGED <<result, loop>>
    /\ UNCHANGED <<body, language, attempt, image_ocr_md, chat_response, log, after_degraded, generateVars>>

\* time.sleep returns: backoff_time *= 2, then the loop condition
SleepReturn ==
    /\ pc = "sleep"
    /\ loop = "extract"
    /\ backoff_time' = NextBackoff(backoff_time)
    /\ IF attempt < max_retries
       THEN /\ pc' = "ocr"
            /\ UNCHANGED <<result, loop>>
       ELSE /\ result' = HTTPException(500, "Failed to process image after maximum retries.")
            /\ pc' = "done"
            /\ loop' = "none"
    /\ UNCHANGED <<body, language, attempt, image_ocr_md, chat_response, log, after_degraded, generateVars>>

\* the invocation ended degraded: a payload returned at rate-limit exhaustion
Degraded(res, events) ==
    res.kind = "json" /\ events # <<>> /\ events[Len(events)].out = "RateLimited"

\* the response is sent and the handler's frame is gone; nothing reads the
\* frame's counters again, they stay as they were
ExtractDeliver ==
    /\ pc = "done"
    /\ pc' = "idle"
    /\ body' = PyNone
    /\ language' = PyNone
    /\ image_ocr_md' = Unbound
    /\ chat_response' = Unbound
    /\ result' = Pending
    /\ log' = <<>>
    /\ after_degraded' = Degraded(result, log)
    /\ UNCHANGED <<attempt, backoff_time, generateVars, loop>>

\* ------------------------------------------------------------ generate_route
KeyCode ==
    <<"c", "o", "d", "e">>

KeyTitle ==
    <<"t", "i", "t", "l", "e">>

KeyProblem ==
    <<"p", "r", "o", "b", "l", "e", "m">>

RECURSIVE LStrip(_)
LStrip(s) == IF s # <<>> /\ Head(s) \in Whitespace THEN LStrip(Tail(s)) ELSE s

RECURSIVE RStrip(_)
RStrip(s) ==
    IF s # <<>> /\ s[Len(s)] \in Whitespace THEN RStrip(SubSeq(s, 1, Len(s) - 1)) ELSE s

\* variant: the string is taken as it is
Strip_None(s) == s

\* str.strip()
Strip(s) == RStrip(LStrip(s))

ProblemText == <<"s", "u", "m">>

\* request bodies of POST /api/generate
GenerateBodies ==
    { PyDict(EmptyMap),
      PyDict(KeyProblemInfo :> PyStr(<<>>)),
      PyDict(KeyProblemInfo :> PyStr(<<" ", "\n">>)),
      PyDict((KeyProblemInfo :> PyStr(<<" ">> \o ProblemText)) @@ (KeyLanguage :> PyStr(<<"g", "o">>))),
      PyDict(KeyProblemInfo :> PyDict((KeyTitle :> PyStr(ProblemText))
                                       @@ (KeyProblem :> PyStr(ProblemText))
                                       @@ (KeyCode :> PyStr(<<>>)))) }

\* groq_response.content
GroqContents == {TextOfLen(0), TextOfLen(3)}

\* a request reaches the route; the handler suspends in `await request.json()`
GenerateReceive ==
    /\ gpc = "idle"
    /\ \E b \in GenerateBodies : gbody' = b
    /\ gpc' = "await_body"
    /\ UNCHANGED <<gresult, groq_response, glog, extractVars, loop>>

\* variant: a problemInfo object is let through as well
GenerateStart_AcceptsObject ==
    /\ gpc = "await_body"
    /\ loop = "none"
    /\ LET problemInfo == DictGet(gbody, KeyProblemInfo, PyNone)
       IN  IF problemInfo.t \notin {"str", "dict"}
              \/ (IsStr(problemInfo) /\ Strip(problemInfo.v) = <<>>)
           THEN /\ gresult' = HTTPException(400, "problemInfo must be a non-empty string.")
                /\ gpc' = "done"
                /\ loop' = "none"
           ELSE /\ gpc' = "invoke"
                /\ loop' = "generate"
                /\ UNCHANGED gresult
    /\ UNCHANGED <<gbody, groq_response, glog, extractVars>>

\* the body is in: the check of problemInfo
GenerateStart ==
    /\ gpc = "await_body"
    /\ loop = "none"
    /\ LET problemInfo == DictGet(gbody, KeyProblemInfo, PyNone)
       IN  IF ~IsStr(problemInfo) \/ Strip(problemInfo.v) = <<>>
           THEN /\ gresult' = HTTPException(400, "problemInfo must be a non-empty string.")
                /\ gpc' = "done"
                /\ loop' = "none"
           ELSE /\ gpc' = "invoke"
                /\ loop' = "generate"
                /\ UNCHANGED gresult
    /\ UNCHANGED <<gbody, groq_response, glog, extractVars>>

\* variant: a rate-limited call is made again
GroqInvoke_Retries ==
    /\ gpc = "invoke"
    /\ loop = "generate"
    /\ \/ \E content \in GroqContents :
            /\ groq_response' = Bound(content)
            /\ gresult' = Returned(PyDict(KeyCode :> PyStr(content)))
            /\ glog' = Append(glog, CallEvent("groq", "ok"))
            /\ gpc' = "done"
            /\ loop' = "none"
       \/ \E e \in Exceptions :
            /\ glog' = Append(glog, CallEvent("groq", ErrorClass(e)))
            /\ IF ErrorClass(e) = "RateLimited"
               THEN UNCHANGED <<gresult, gpc, loop>>
               ELSE /\ gresult' = HTTPException(500, "str(e)")
                    /\ gpc' = "done"
                    /\ loop' = "none"
            /\ UNCHANGED groq_response
    /\ UNCHANGED <<gbody, extractVars>>

\* groq_llm.invoke(prompt_text) inside try / except Exception
GroqInvoke ==
    /\ gpc = "invoke"
    /\ loop = "generate"
    /\ \/ \E content \in GroqContents :
            /\ groq_response' = Bound(content)
            /\ gresult' = Returned(PyDict(KeyCode :> PyStr(content)))
            /\ glog' = Append(glog, CallEvent("groq", "ok"))
       \/ \E e \in Exceptions :
            /\ gresult' = HTTPException(500, "str(e)")
            /\ glog' = Append(glog, CallEvent("groq", ErrorClass(e)))
            /\ UNCHANGED groq_response
    /\ gpc' = "done"
    /\ loop' = "none"
    /\ UNCHANGED <<gbody, extractVars>>

\* the response is sent and the handler's frame is gone
GenerateDeliver ==
    /\ gpc = "done"
    /\ gpc' = "idle"
    /\ gbody' = PyNone
    /\ gresult' = Pending
    /\ groq_response' = Unbound
    /\ glog' = <<>>
    /\ UNCHANGED <<extractVars, loop>>

\* ------------------------------------------------------------ specification
Next ==
    \/ ExtractReceive
    \/ ExtractStart
    \/ OcrStage
    \/ ChatStage
    \/ SleepReturn
    \/ ExtractDeliver
    \/ GenerateReceive
    \/ GenerateStart
    \/ GroqInvoke
    \/ GenerateDeliver

Spec == Init /\ [][Next]_vars

TypeOK ==
    /\ pc \in {"idle", "await_body", "ocr", "chat", "sleep", "done"}
    /\ gpc \in {"idle", "await_body", "invoke", "done"}
    /\ loop \in {"none", "extract", "generate"}
    /\ (loop = "extract") = (pc \in {"ocr", "chat", "sleep"})
    /\ (loop = "generate") = (gpc = "invoke")

\* ------------------------------------------------------------ reading the log
Last(s) == s[Len(s)]

Ended == pc = "done" /\ log # <<>>

Positions == 1..Len(log)

Retryable(ev) == ev.out \in {"RateLimited", "TransientNetwork"}

Failure(ev) == ev.out \in {"RateLimited", "TransientNetwork", "Other"}

\* retryable failures so far
RetryableCount == Cardinality({i \in Positions : Retryable(log[i])})

\* iterations of the pipeline so far: each starts with an OCR call
OcrCalls == Cardinality({i \in Positions : log[i].stage = "ocr"})

IsSleep(ev) == ev.stage = "sleep"

\* durations of the sleeps, in order
SleepDurs == LET s == SelectSeq(log, IsSleep) IN [k \in 1..Len(s) |-> s[k].dur]

\* the request passed `if not imageDataList`
Validated == body.t = "dict" /\ Truthy(DictGet(body, KeyImageDataList, PyList(<<>>)))

\* info = lead + text[:k] + "..." for some k <= TruncLen
HasTruncatedPrefix(info, lead, text) ==
    LET k == Len(info) - Len(lead) - Len(Ellipsis)
    IN  /\ k \in 0..TruncLen
        /\ k <= Len(text)
        /\ info = lead \o SubSeq(text, 1, k) \o Ellipsis

ProblemInfoOf(value) == value.v[KeyProblemInfo].v

\* { problemInfo: string, language: string }
IsExtractionResult(value) ==
    /\ value.t = "dict"
    /\ {KeyProblemInfo, KeyLanguage} \subseteq DOMAIN value.v
    /\ IsStr(value.v[KeyProblemInfo])
    /\ IsStr(value.v[KeyLanguage])

\* ------------------------------------------------------------ C1
\* C1: while every failure is a rate limit, the sleeps are initial, 2*initial,
\* 4*initial, ...; and an invocation that ends on a rate limit has run the
\* pipeline exactly max_retries times, slept max_retries - 1 times and returned
\* a degraded payload.
C1_RateLimitedRun ==
    (\A i \in Positions : Failure(log[i]) => log[i].out = "RateLimited")
    => /\ SleepDurs = [k \in 1..Len(SleepDurs) |-> initial_backoff * 2^(k - 1)]
       /\ (Ended /\ Last(log).out = "RateLimited")
          => /\ OcrCalls = max_retries
             /\ Len(SleepDurs) = max_retries - 1
             /\ result.kind = "json"

\* a run of max_retries chat rate limits has ended
C1_Witness ==
    /\ Ended
    /\ \A i \in Positions : Failure(log[i]) => log[i].out = "RateLimited"
    /\ Last(log) = CallEvent("chat", "RateLimited")
    /\ SleepDurs = <<2, 4, 8, 16>>

\* ------------------------------------------------------------ C2
\* C2 as stated: at rate-limit exhaustion the payload carries the OCR text
\* whenever OCR text was obtained in the invocation, and the generic message
\* otherwise.
C2_AnyOcrTextIsReturned ==
    (Ended /\ Last(log).out = "RateLimited")
    => /\ result.kind = "json"
       /\ IF image_ocr_md.bound
          THEN HasTruncatedPrefix(ProblemInfoOf(result.value), MsgRawOcrPrefix,
                                  image_ocr_md.val)
          ELSE ProblemInfoOf(result.value) = MsgRateLimits

\* C2 amended: at rate-limit exhaustion, a rate limit of the chat stage gives
\* the indicator, at most 500 leading characters of the OCR text of that
\* iteration and "..."; a rate limit of the OCR stage gives the generic
\* message, also when an earlier iteration had obtained OCR text.
C2_ExhaustingStageDecides ==
    (Ended /\ Last(log).out = "RateLimited")
    => /\ result.kind = "json"
       /\ IF Last(log).stage = "chat"
          THEN /\ image_ocr_md.bound
               /\ HasTruncatedPrefix(ProblemInfoOf(result.value), MsgRawOcrPrefix,
                                     image_ocr_md.val)
          ELSE ProblemInfoOf(result.value) = MsgRateLimits

\* chat rate limit at exhaustion with an OCR text longer than the cut
C2_Witness ==
    /\ Ended
    /\ Last(log) = CallEvent("chat", "RateLimited")
    /\ attempt = max_retries
    /\ Len(image_ocr_md.val) > TruncLen

\* ------------------------------------------------------------ C3
\* C3: when the attempts are exhausted and OCR text exists, the invocation
\* ends with a returned payload, for network errors as for rate limits.  The
\* OCR text counted here is that of the exhausting iteration: the failure
\* came from the chat stage, after the OCR stage had succeeded.
C3_PartialDataGivesDegraded ==
    (Ended /\ Retryable(Last(log)) /\ Last(log).stage = "chat" /\ image_ocr_md.bound)
    => result.kind = "json"

\* ------------------------------------------------------------ C4
\* C4: an Other error is the last event of its invocation: the handler ends
\* at once with HTTP 500, without a sleep or a further call, and the attempt
\* counter still equals the number of retryable failures before it.
C4_OtherAbortsAtOnce ==
    \A i \in Positions :
        log[i].out = "Other"
        => /\ i = Len(log)
           /\ pc = "done"
           /\ result.kind = "error"
           /\ result.status = 500
           /\ attempt = RetryableCount
           /\ Len(SleepDurs) = attempt
           /\ i <= 2 => attempt = 0 /\ SleepDurs = <<>>

\* an Other error after two retries
C4_Witness ==
    /\ Ended
    /\ Last(log).out = "Other"
    /\ attempt = 2

\* ------------------------------------------------------------ C5
\* C5: while the extract request sleeps, a waiting generate request can be
\* taken up by the event loop.
C5_SleepYieldsTheLoop ==
    (pc = "sleep" /\ gpc = "await_body") => ENABLED GenerateStart

\* ------------------------------------------------------------ C6
\* C6: a chat success is the last event of its invocation, and when its
\* content parses the handler returns the parsed value, on an attempt within
\* max_retries.
C6_SuccessEndsTheRun ==
    /\ \A i \in Positions :
           log[i] = CallEvent("chat", "ok") => i = Len(log) /\ pc = "done"
    /\ (Ended /\ Last(log) = CallEvent("chat", "ok") /\ JsonLoads(chat_response.val).ok)
       => /\ result = Returned(JsonLoads(chat_response.val).val)
          /\ attempt = RetryableCount
          /\ attempt < max_retries
          /\ OcrCalls = attempt + 1
          /\ chat_response.val = ContentGood
             => result.value = Payload(<<"s", "u", "m">>, PyStr(<<"g", "o">>))

\* success on attempt 3 of 5
C6_Witness ==
    /\ Ended
    /\ Last(log) = CallEvent("chat", "ok")
    /\ attempt = 2
    /\ chat_response.val = ContentGood

\* ------------------------------------------------------------ C7
\* C7: chat content that does not parse gives a returned payload with exactly
\* the keys problemInfo and language, problemInfo holding the indicator, at
\* most 500 leading characters of the content and "...", and no retry.
C7_ParseFailureFallsBack ==
    (Ended /\ Last(log) = CallEvent("chat", "ok") /\ ~JsonLoads(chat_response.val).ok)
    => /\ result.kind = "json"
       /\ result.value.t = "dict"
       /\ DOMAIN result.value.v = {KeyProblemInfo, KeyLanguage}
       /\ result.value.v[KeyLanguage] = language
       /\ IsStr(result.value.v[KeyProblemInfo])
       /\ HasTruncatedPrefix(ProblemInfoOf(result.value), MsgParsePrefix, chat_response.val)
       /\ attempt = RetryableCount
       /\ OcrCalls = attempt + 1

\* unparseable content longer than the cut
C7_Witness ==
    /\ Ended
    /\ Last(log) = CallEvent("chat", "ok")
    /\ ~JsonLoads(chat_response.val).ok
    /\ Len(chat_response.val) > TruncLen

\* ------------------------------------------------------------ C8
\* C8: a validated request ends with an HTTP error exactly when its last
\* event is an Other error or the network error that exhausts the attempts;
\* every other run ends with a returned payload.
C8_ErrorsOnlyFromOtherOrNetwork ==
    (pc = "done" /\ Validated)
    => /\ log # <<>>
       /\ result.kind \in {"json", "error"}
       /\ (result.kind = "error")
          <=> \/ Last(log).out = "Other"
              \/ Last(log).out = "TransientNetwork" /\ RetryableCount = max_retries

\* HTTP 503 after exhausted network retries
C8_Witness ==
    /\ Ended
    /\ Validated
    /\ result.status = 503
    /\ \A i \in Positions : Failure(log[i]) => log[i].out = "TransientNetwork"

\* ------------------------------------------------------------ C9
\* C9: every retry starts again at the OCR stage: a chat call directly
\* follows an OCR success, an OCR call is the first event or directly follows
\* a sleep, and a sleep directly follows a retryable failure.
C9_RetryRestartsAtOcr ==
    /\ \A i \in Positions :
           log[i].stage = "chat" => i > 1 /\ log[i - 1] = CallEvent("ocr", "ok")
    /\ \A i \in Positions :
           log[i].stage = "ocr" => i = 1 \/ IsSleep(log[i - 1])
    /\ \A i \in Positions :
           IsSleep(log[i]) => i > 1 /\ Retryable(log[i - 1])
    /\ pc = "chat" => log # <<>> /\ Last(log) = CallEvent("ocr", "ok")
    /\ pc = "ocr" => log = <<>> \/ IsSleep(Last(log))

\* a chat-stage failure of each kind was followed by a new OCR call
C9_Witness ==
    /\ \E i \in Positions :
           /\ log[i] = CallEvent("chat", "RateLimited")
           /\ i + 2 <= Len(log)
           /\ log[i + 2].stage = "ocr"
    /\ \E i \in Positions :
           /\ log[i] = CallEvent("chat", "TransientNetwork")
           /\ i + 2 <= Len(log)
           /\ log[i + 2].stage = "ocr"

\* ------------------------------------------------------------ C10
\* C10: every returned payload is an object with a string problemInfo and a
\* string language.
C10_ReturnsExtractionResult ==
    (pc = "done" /\ result.kind = "json") => IsExtractionResult(result.value)

\* ------------------------------------------------------------ C11
\* C11: an invocation that follows a degraded one starts like a first one:
\* attempt 0, the initial backoff, no OCR text, no result; it calls the OCR
\* stage, and when both stages succeed at once it returns the parsed content.
C11_FreshAfterDegraded ==
    after_degraded
    => /\ (pc = "ocr" /\ log = <<>>)
          => /\ attempt = 0
             /\ backoff_time = initial_backoff
             /\ ~image_ocr_md.bound
             /\ ~chat_response.bound
             /\ result = Pending
       /\ (pc = "done" /\ Validated) => log # <<>> /\ log[1].stage = "ocr"
       /\ (pc = "done" /\ log = <<CallEvent("ocr", "ok"), CallEvent("chat", "ok")>>
           /\ JsonLoads(chat_response.val).ok)
          => /\ result = Returned(JsonLoads(chat_response.val).val)
             /\ attempt = 0

\* after a degraded result the next invocation succeeded at the first attempt
C11_Witness ==
    /\ after_degraded
    /\ pc = "done"
    /\ log = <<CallEvent("ocr", "ok"), CallEvent("chat", "ok")>>
    /\ result = Returned(Payload(<<"s", "u", "m">>, PyStr(<<"g", "o">>)))

\* ------------------------------------------------------------ C12
\* imageDataList is absent from the body or is the empty list
EmptyOrAbsent(b) ==
    /\ b.t = "dict"
    /\ KeyImageDataList \notin DOMAIN b.v \/ b.v[KeyImageDataList] = PyList(<<>>)

\* C12: a request with an empty or absent imageDataList never enters the
\* retry loop: it ends with HTTP 400 and no external call or sleep was made.
C12_EmptyListIsRejected ==
    EmptyOrAbsent(body)
    => /\ pc \in {"await_body", "done"}
       /\ log = <<>>
       /\ pc = "done" => result = HTTPException(400, "imageDataList cannot be empty.")

\* the request with an empty list was answered
C12_Witness ==
    /\ pc = "done"
    /\ body = PyDict(KeyImageDataList :> PyList(<<>>))
    /\ result.status = 400

\* ------------------------------------------------------------ C13
AllWhitespace(s) == \A i \in 1..Len(s) : s[i] \in Whitespace

GProblemInfo == DictGet(gbody, KeyProblemInfo, PyNone)

\* C13: a generate request whose problemInfo is the empty string or only
\* whitespace never reaches the model call: it ends with HTTP 400.
C13_BlankProblemInfoIsRejected ==
    (gbody.t = "dict" /\ GProblemInfo.t = "str" /\ AllWhitespace(GProblemInfo.v))
    => /\ gpc \in {"await_body", "done"}
       /\ glog = <<>>
       /\ gpc = "done" => gresult = HTTPException(400, "problemInfo must be a non-empty string.")

\* the whitespace-only request was answered
C13_Witness ==
    /\ gpc = "done"
    /\ gbody = PyDict(KeyProblemInfo :> PyStr(<<" ", "\n">>))
    /\ gresult.status = 400

\* ------------------------------------------------------------ C14
\* problemInfo is missing, or a string that is empty or blank
MissingOrEmpty ==
    \/ KeyProblemInfo \notin DOMAIN gbody.v
    \/ GProblemInfo.t = "str" /\ AllWhitespace(GProblemInfo.v)

\* C14 as stated: HTTP 400 only for a missing or empty problemInfo; a string
\* and a {title, problem, code} object both reach the model call.
C14_ObjectIsAccepted ==
    (gpc = "done" /\ ~MissingOrEmpty)
    => /\ gresult.status # 400
       /\ glog # <<>>

\* C14 amended: only a string with a non-blank character reaches the model
\* call, and {code} is returned when that call succeeds; a missing
\* problemInfo, one that is not a string (the {title, problem, code} object
\* too) and a blank one end with HTTP 400 without a call.
C14_OnlyStringsAreAccepted ==
    gpc \in {"invoke", "done"}
    => IF GProblemInfo.t = "str" /\ ~AllWhitespace(GProblemInfo.v)
       THEN gpc = "done"
            => /\ Len(glog) = 1
               /\ gresult.status \in {200, 500}
               /\ glog[1].out = "ok"
                  => /\ gresult.kind = "json"
                     /\ DOMAIN gresult.value.v = {KeyCode}
       ELSE /\ gpc = "done"
            /\ gresult = HTTPException(400, "problemInfo must be a non-empty string.")
            /\ glog = <<>>

\* the request with a problemInfo object was answered with HTTP 400
C14_Witness ==
    /\ gpc = "done"
    /\ GProblemInfo.t = "dict"
    /\ DOMAIN GProblemInfo.v = {KeyTitle, KeyProblem, KeyCode}
    /\ gresult.status = 400

\* ------------------------------------------------------------ C15
\* retryable failures among the first i events
RetryablesUpTo(i) == Cardinality({j \in 1..i : Retryable(log[j])})

\* the events that end an invocation
Terminal(i) ==
    \/ log[i] = CallEvent("chat", "ok")
    \/ log[i].out = "Other"
    \/ Retryable(log[i]) /\ RetryablesUpTo(i) = max_retries

\* C15: a sleep starts only after a retryable failure that leaves attempts,
\* and the next event after it is an OCR call; the failure that exhausts the
\* counter, like every other terminal event, is the last event of the
\* invocation, which has then ended.
C15_SleepOnlyWithAttemptsLeft ==
    /\ \A i \in Positions :
           IsSleep(log[i])
           => /\ i > 1
              /\ Retryable(log[i - 1])
              /\ RetryablesUpTo(i) < max_retries
              /\ i < Len(log) => log[i + 1].stage = "ocr"
    /\ \A i \in Positions : Terminal(i) => i = Len(log) /\ pc = "done"
    /\ pc = "sleep" => /\ IsSleep(Last(log))
                       /\ attempt < max_retries
                       /\ ENABLED SleepReturn
    /\ Ended => Terminal(Len(log))

\* the handler sleeps before its last attempt
C15_Witness ==
    /\ pc = "sleep"
    /\ attempt = max_retries - 1
    /\ Last(log).dur = 16

\* ------------------------------------------------------------ C16
\* C16: at the start of every loop iteration the one counter equals the
\* number of retryable failures so far, of whatever class and stage, it is
\* below max_retries, and backoff_time is initial * 2^attempt.
C16_SharedCounterAndBackoff ==
    pc = "ocr"
    => /\ attempt = RetryableCount
       /\ attempt \in 0..(max_retries - 1)
       /\ backoff_time = initial_backoff * 2^attempt

\* an iteration starts after one failure of each class and stage
C16_Witness ==
    /\ pc = "ocr"
    /\ attempt = 4
    /\ \E i \in Positions : log[i] = CallEvent("ocr", "RateLimited")
    /\ \E i \in Positions : log[i] = CallEvent("chat", "RateLimited")
    /\ \E i \in Positions : log[i] = CallEvent("ocr", "TransientNetwork")
    /\ \E i \in Positions : log[i] = CallEvent("chat", "TransientNetwork")

\* ------------------------------------------------------------ C17
\* external calls made so far
ExternalCalls == Cardinality({i \in Positions : log[i].stage \in {"ocr", "chat"}})

\* steps an invocation can still take: three per attempt left (OCR call,
\* chat call, sleep), counted from its position in the iteration
StepsLeft ==
    CASE pc = "ocr" -> 3 * (max_retries - attempt) + 2
      [] pc = "chat" -> 3 * (max_retries - attempt) + 1
      [] pc = "sleep" -> 3 * (max_retries - attempt) + 3
      [] OTHER -> 0

\* calls and sleeps stay within their limits, a running invocation holds the
\* event-loop thread, which is all its next step needs, and an ended one has
\* a payload or an HTTP error
C17_Limits ==
    /\ OcrCalls <= max_retries
    /\ ExternalCalls <= 2 * max_retries
    /\ Len(SleepDurs) <= max_retries - 1
    /\ pc \in {"ocr", "chat", "sleep"} => loop = "extract"
    /\ pc = "done" => result.kind \in {"json", "error"}

\* C17: an invocation makes at most max_retries OCR calls, 2 * max_retries
\* external calls and max_retries - 1 sleeps, and every step of a running
\* invocation, whatever the stage's outcome, lowers the number of steps it
\* can still take, so that it ends with a payload or an HTTP error.
C17_BoundedRun ==
    /\ []C17_Limits
    /\ [][(pc \in {"ocr", "chat", "sleep"}) => (StepsLeft' < StepsLeft)]_extractVars

\* the longest run: ten calls and four sleeps
C17_Witness ==
    /\ Ended
    /\ ExternalCalls = 2 * max_retries
    /\ Len(SleepDurs) = max_retries - 1

\* ------------------------------------------------------------ C18
\* text[:500], written out
First500(text) == SubSeq(text, 1, IF Len(text) > 500 THEN 500 ELSE Len(text))

\* C18: the failure that exhausts the counter alone decides the outcome: an
\* OCR rate limit gives the generic payload, a chat rate limit the payload
\* with the OCR text, a network error HTTP 503.
C18_LastFailureDecides ==
    (Ended /\ Retryable(Last(log)) /\ RetryableCount = max_retries)
    => IF Last(log) = CallEvent("ocr", "RateLimited")
       THEN result = Returned(Payload(MsgRateLimits, language))
       ELSE IF Last(log) = CallEvent("chat", "RateLimited")
       THEN /\ log[Len(log) - 1] = CallEvent("ocr", "ok")
            /\ result = Returned(Payload(MsgRawOcrPrefix \o First500(image_ocr_md.val)
                                           \o Ellipsis, language))
       ELSE result = HTTPException(503, "Network error when connecting to API services.")

\* exhaustion by an OCR rate limit after a network error and an OCR success
C18_Witness ==
    /\ Ended
    /\ RetryableCount = max_retries
    /\ Last(log) = CallEvent("ocr", "RateLimited")
    /\ image_ocr_md.bound
    /\ \E i \in Positions : log[i].out = "TransientNetwork"

\* ------------------------------------------------------------ C19
\* C19: the raise after the loop is never reached: no invocation ends with
\* "Failed to process image after maximum retries.", and the loop condition
\* is tested only with attempt below max_retries.
C19_TrailingRaiseUnreachable ==
    /\ result.detail # "Failed to process image after maximum retries."
    /\ pc \in {"ocr", "chat", "sleep"} => attempt < max_retries
    /\ (pc = "done" /\ attempt = max_retries /\ log # <<>>) => Retryable(Last(log))

\* the counter reached max_retries and the handler ended inside the except clause
C19_Witness ==
    /\ Ended
    /\ attempt = max_retries
    /\ result.status = 503

\* ------------------------------------------------------------ C20
\* C20: a generate request calls the model at most once and never sleeps: an
\* exception of any class, rate limits and network errors included, ends the
\* request with HTTP 500, and a successful call ends it with {code} holding
\* the content the model returned.
C20_OneCallNoRetry ==
    /\ Len(glog) <= 1
    /\ \A i \in DOMAIN glog : glog[i].stage = "groq"
    /\ gpc = "invoke" => glog = <<>>
    /\ glog # <<>>
       => /\ gpc = "done"
          /\ IF glog[1].out = "ok"
             THEN /\ groq_response.bound
                  /\ gresult = Returned(PyDict(KeyCode :> PyStr(groq_response.val)))
             ELSE /\ gresult.kind = "error"
                  /\ gresult.status = 500

\* a rate-limited model call ended the request with HTTP 500
C20_Witness ==
    /\ gpc = "done"
    /\ glog = <<CallEvent("groq", "RateLimited")>>
    /\ gresult.status = 500
====
